---- MODULE Spec2Model ----
(***************************************************************************)
(* A model of lib/utils/xpack.js: Xpack.downloadBinaries (the binary       *)
(* artifact acquisition pipeline), Xpack.cacheArchive (the streaming       *)
(* download into the cache) and Xpack.isFolderPackage.                     *)
(*                                                                         *)
(* Strings are sequences of tokens, so that concatenation is \o and        *)
(* endsWith('/') looks at the last token.  A JavaScript value that is      *)
(* undefined, null or the empty string (all falsy) is the empty sequence.  *)
(***************************************************************************)
EXTENDS Integers, Sequences, FiniteSets, TLC

\* The number of processes that may call downloadBinaries.
NumProcs == 2

Procs == 1..NumProcs

Absent == <<>>

-----------------------------------------------------------------------------
(* The inputs: package.json files, URLs, archives and their digests.       *)

FallbackUrl == <<"https://fallback.com", "/">>
PlainUrl == <<"https://plain.com">>
ExampleUrl == <<"https://example.com">>
ExampleSlashUrl == <<"https://example.com", "/">>
ArchiveName == <<"x.tar.gz">>
OtherName == <<"y.zip">>

\* The archives the remote servers hold, as the sets of the paths of their
\* files; a path is the sequence of its segments.
Blobs == {"A", "B"}

Archive(blob) ==
    CASE blob = "A" -> {<<"top", "bin", "tool">>, <<"top", "README">>}
      [] blob = "B" -> {<<"top", "bin", "tool">>, <<"top", "bin", "extra">>,
                        <<"top", "README">>}
      [] OTHER -> {}

\* What a GET of the url streams back: each server has its own archive.
Remote(url) == IF url[1] = ExampleUrl[1] THEN "B" ELSE "A"

\* The digests of the archives, as strings of hex digits (each 0..15).
DigestHex(alg, blob) ==
    IF alg = "sha256"
    THEN (IF blob = "A" THEN <<10, 1, 15, 0>> ELSE <<11, 2, 0, 7>>)
    ELSE (IF blob = "A" THEN <<5, 12, 3, 3>> ELSE <<6, 13, 9, 14>>)

\* A sha256 that is the digest of no archive.
WrongHex == <<13, 14, 10, 13>>

Sha256Values == {Absent, DigestHex("sha256", "A"), WrongHex}
Sha512Values == {Absent, DigestHex("sha512", "A")}

\* xpack.binaries.skip: absent, a count, a negative count, no number.
SkipValues == {Absent, <<"1">>, <<"-", "1">>, <<"a", "b", "c">>}

\* The platform entry platforms[platformKey] of package.json.
PlatformEntries ==
    [skip : BOOLEAN,
     fileName : {Absent, ArchiveName},
     baseUrl : {Absent, ExampleUrl, ExampleSlashUrl},
     sha256 : Sha256Values,
     sha512 : Sha512Values]

NoPlatform ==
    [skip |-> FALSE, fileName |-> Absent, baseUrl |-> Absent,
     sha256 |-> Absent, sha512 |-> Absent]

\* package.json files with an entry for the running platform.
BinaryManifests ==
    [file : {"ok"}, name : {<<"pkg">>}, version : {<<"1.0.0">>},
     hasXpack : {TRUE}, hasBinaries : {TRUE}, hasPlatforms : {TRUE},
     hasPlatform : {TRUE},
     baseUrl : {Absent, FallbackUrl, PlainUrl},
     destination : {Absent, <<"bin">>},
     skip : SkipValues,
     platform : PlatformEntries]

Complete ==
    [file |-> "ok", name |-> <<"pkg">>, version |-> <<"1.0.0">>,
     hasXpack |-> TRUE, hasBinaries |-> TRUE, hasPlatforms |-> TRUE,
     hasPlatform |-> TRUE,
     baseUrl |-> FallbackUrl, destination |-> Absent, skip |-> Absent,
     platform |-> [skip |-> FALSE, fileName |-> ArchiveName,
                   baseUrl |-> Absent,
                   sha256 |-> DigestHex("sha256", "A"), sha512 |-> Absent]]

Bare ==
    [Complete EXCEPT !.hasXpack = FALSE, !.hasBinaries = FALSE,
                     !.hasPlatforms = FALSE, !.hasPlatform = FALSE,
                     !.baseUrl = Absent, !.platform = NoPlatform]

\* package.json files that are no package, or declare no binaries for the
\* running platform.  A missing section has no fields below it.
OtherManifests ==
    {[Complete EXCEPT !.file = "unreadable"],
     [Complete EXCEPT !.file = "invalid"],
     [Complete EXCEPT !.name = Absent],
     [Complete EXCEPT !.version = Absent],
     [Bare EXCEPT !.name = Absent],
     Bare,
     [Bare EXCEPT !.hasXpack = TRUE],
     [Bare EXCEPT !.hasXpack = TRUE, !.hasBinaries = TRUE],
     [Bare EXCEPT !.hasXpack = TRUE, !.hasBinaries = TRUE,
                  !.baseUrl = FallbackUrl],
     [Bare EXCEPT !.hasXpack = TRUE, !.hasBinaries = TRUE,
                  !.hasPlatforms = TRUE],
     [Bare EXCEPT !.hasXpack = TRUE, !.hasBinaries = TRUE,
                  !.hasPlatforms = TRUE, !.baseUrl = FallbackUrl]}

\* package.json files of releases that differ in the entry's baseUrl, in
\* the declared sha256 or in the fileName.
ReleaseManifests ==
    {Complete,
     [Complete EXCEPT !.platform.baseUrl = ExampleUrl,
                      !.platform.sha256 = DigestHex("sha256", "B")],
     [Complete EXCEPT !.platform.sha256 = DigestHex("sha256", "B")],
     [Complete EXCEPT !.platform.fileName = OtherName]}

Manifests == BinaryManifests \cup OtherManifests \cup ReleaseManifests

-----------------------------------------------------------------------------
(* downloadBinaries, lines 109-178: the synchronous part.                  *)

\* A variant that asks for the name only.
isFolderPackageNameOnly(m) ==
    /\ m.file = "ok"
    /\ m.name # Absent

\* isFolderPackage: the parsed package.json when the file can be read and
\* parsed and has a name and a version, null otherwise.
isFolderPackage(m) ==
    /\ m.file = "ok"
    /\ m.name # Absent
    /\ m.version # Absent

\* if (!json || !json.xpack)
NoXpack(m) == ~isFolderPackage(m) \/ ~m.hasXpack

\* if (!json.xpack.binaries)
NoBinaries(m) == ~m.hasBinaries

\* if (!json.xpack.binaries.platforms)
NoPlatforms(m) == ~m.hasPlatforms

\* if (!platform), platform = platforms[platformKey]
PlatformUndefined(m) == ~m.hasPlatform

\* if (!json.xpack.binaries.baseUrl)
MissingBaseUrl(m) == m.baseUrl = Absent

\* A variant that never takes the platform for skipped.
PlatformSkipIgnored(m) == FALSE

\* if (platform.skip)
PlatformSkip(m) == m.platform.skip

\* if (!platform.fileName)
MissingFileName(m) == m.platform.fileName = Absent

\* The way the synchronous part ends, in the order of the code's tests.
Resolve(m) ==
    IF NoXpack(m) THEN "noop"
    ELSE IF NoBinaries(m) THEN "noop"
    ELSE IF NoPlatforms(m) THEN "noop"
    ELSE IF PlatformUndefined(m) THEN "noop"
    ELSE IF MissingBaseUrl(m) THEN "MissingBaseUrl"
    ELSE IF PlatformSkip(m) THEN "warned"
    ELSE IF MissingFileName(m) THEN "MissingFileName"
    ELSE "proceed"

MissingBaseUrlMessage == <<"Missing xpack.binaries.baseUrl">>

\* `${process.platform}-${sysArch()}`, and the text of the Configuration
\* error for a missing fileName.
platformKey == <<"linux", "-", "x64">>

MissingFileNameMessage ==
    <<"Missing xpack.binaries.platform[">> \o platformKey \o <<"].fileName">>

\* path.join(packagePath, json.xpack.binaries.destination || '.content')
contentFolderPath(m) ==
    <<"pkg", "/">> \o (IF m.destination # Absent THEN m.destination
                       ELSE <<".content">>)

ContentFolders == {contentFolderPath(m) : m \in Manifests}

EndsWithSlash(s) == Len(s) > 0 /\ s[Len(s)] = "/"

\* A variant that prefers the common URL.
fileUrlCommonFirst(m) ==
    LET base == IF m.baseUrl # Absent THEN m.baseUrl
                ELSE m.platform.baseUrl
        slashed == IF EndsWithSlash(base) THEN base ELSE base \o <<"/">>
    IN  slashed \o m.platform.fileName

\* Prefer the platform specific URL, if available, otherwise the common URL.
fileUrl(m) ==
    LET base == IF m.platform.baseUrl # Absent THEN m.platform.baseUrl
                ELSE m.baseUrl
        slashed == IF EndsWithSlash(base) THEN base ELSE base \o <<"/">>
    IN  slashed \o m.platform.fileName

\* A variant that names sha512 whenever it is declared.
hashAlgorithmSha512First(m) ==
    IF m.platform.sha512 # Absent THEN "sha512"
    ELSE IF m.platform.sha256 # Absent THEN "sha256"
    ELSE "undefined"

\* sha256 is tested first, sha512 only without it.
hashAlgorithm(m) ==
    IF m.platform.sha256 # Absent THEN "sha256"
    ELSE IF m.platform.sha512 # Absent THEN "sha512"
    ELSE "undefined"

hexSum(m) ==
    IF m.platform.sha256 # Absent THEN m.platform.sha256
    ELSE IF m.platform.sha512 # Absent THEN m.platform.sha512
    ELSE Absent

\* Buffer.from(hexSum, 'hex'): one byte for each pair of hex digits.
HexDecode(h) == [i \in 1..(Len(h) \div 2) |-> 16 * h[2 * i - 1] + h[2 * i]]

\* Bit n (from 1, most significant first) of a byte string, 0 beyond its end.
BitAt(bytes, n) ==
    IF n > 8 * Len(bytes) THEN 0
    ELSE (bytes[((n - 1) \div 8) + 1] \div (2 ^ (7 - ((n - 1) % 8)))) % 2

Sextet(bytes, k) ==
    32 * BitAt(bytes, 6 * k - 5) + 16 * BitAt(bytes, 6 * k - 4)
    + 8 * BitAt(bytes, 6 * k - 3) + 4 * BitAt(bytes, 6 * k - 2)
    + 2 * BitAt(bytes, 6 * k - 1) + BitAt(bytes, 6 * k)

\* buff.toString('base64'): the sextets of the bytes, each 0..63, and the
\* padding character '=' written 64.
Base64(bytes) ==
    [k \in 1..(4 * ((Len(bytes) + 2) \div 3)) |->
        IF k <= (8 * Len(bytes) + 5) \div 6 THEN Sextet(bytes, k) ELSE 64]

\* `${hashAlgorithm}-${buff.toString('base64')}`, undefined without hexSum.
integrityDigest(m) ==
    IF hexSum(m) # Absent
    THEN <<hashAlgorithm(m), "-">> \o Base64(HexDecode(hexSum(m)))
    ELSE Absent

\* A variant that makes the URL part of the key.
cacheKeyWithUrl(m) == <<"xpm:binaries:">> \o fileUrl(m)

\* `xpm:binaries:${platform.fileName}`
cacheKey(m) == <<"xpm:binaries:">> \o m.platform.fileName

CacheKeys == {cacheKey(m) : m \in BinaryManifests \cup ReleaseManifests}

\* parseInt(string): an optional sign and the longest run of decimal digits
\* that follows it, NaN when there is no digit there.  It never throws.
DigitChars == <<"0", "1", "2", "3", "4", "5", "6", "7", "8", "9">>

IsDigit(c) == \E d \in 1..10 : DigitChars[d] = c

DigitVal(c) == (CHOOSE d \in 1..10 : DigitChars[d] = c) - 1

RECURSIVE LeadingDigits(_)
LeadingDigits(s) ==
    IF s # <<>> /\ IsDigit(Head(s)) THEN 1 + LeadingDigits(Tail(s)) ELSE 0

RECURSIVE DecimalValue(_, _)
DecimalValue(s, n) ==
    IF n = 0 THEN 0 ELSE 10 * DecimalValue(s, n - 1) + DigitVal(s[n])

parseInt(s) ==
    LET negative == s # <<>> /\ Head(s) = "-"
        signed == s # <<>> /\ Head(s) \in {"-", "+"}
        rest == IF signed THEN Tail(s) ELSE s
        n == LeadingDigits(rest)
    IN  IF n = 0 THEN [nan |-> TRUE, val |-> 0]
        ELSE [nan |-> FALSE,
              val |-> IF negative THEN 0 - DecimalValue(rest, n)
                      ELSE DecimalValue(rest, n)]

\* let skip = 0; if (json.xpack.binaries.skip) { skip = parseInt(...) }
skipLevels(m) ==
    IF m.skip # Absent THEN parseInt(m.skip) ELSE [nan |-> FALSE, val |-> 0]

-----------------------------------------------------------------------------
(* The collaborators: the cache store, the file system, decompress.        *)

\* cacache.get.info answers null for a key the index does not hold.
NoEntry == [path |-> Absent, integrity |-> Absent]

\* The integrity the store computes for the bytes it was streamed.
ComputedIntegrity(alg, blob) ==
    <<alg, "-">> \o Base64(HexDecode(DigestHex(alg, blob)))

\* The index entry of a committed write: the blob is stored under its
\* content address.
EntryOf(blob) ==
    [path |-> <<"content-v2", blob>>,
     integrity |-> ComputedIntegrity("sha512", blob)]

ContentAt(path) == IF Len(path) = 2 THEN path[2] ELSE "none"

CacheEntries == {NoEntry} \cup {EntryOf(b) : b \in Blobs}

\* opts.integrity, when given, must be the digest of the streamed bytes.
IntegrityMatches(expected, blob) ==
    \/ expected = Absent
    \/ /\ expected # Absent
       /\ expected = ComputedIntegrity(expected[1], blob)

NoFolder == [exists |-> FALSE, files |-> {}]
StaleFolder == [exists |-> TRUE, files |-> {<<"old">>}]

\* rimraf(contentFolderPath): the folder and all below it are gone; no
\* error when there was none.
Removed(folder) == NoFolder

\* decompress strips the leading segments only when strip > 0.
StripPath(path, strip) ==
    IF ~strip.nan /\ strip.val > 0
    THEN SubSeq(path, strip.val + 1, Len(path))
    ELSE path

ExtractedFiles(blob, strip) == {StripPath(x, strip) : x \in Archive(blob)}

\* decompress(ipath, contentFolderPath, {strip}) writes the files into the
\* folder, creating it, and resolves with the list of the archive's files.
Extracted(folder, blob, strip) ==
    [exists |-> TRUE, files |-> folder.files \cup ExtractedFiles(blob, strip)]

FileCount(blob) == Cardinality(Archive(blob))

-----------------------------------------------------------------------------
(* ManifestId, lines 296-351.                                              *)

\* The characters of the descriptors, and the longest descriptor.
Chars == {"@", "/", "a", "1"}
MaxIdLen == 6

Descriptors == UNION {[1..n -> Chars] : n \in 0..MaxIdLen}

\* manifest.version, of characters no descriptor has.
Versions == {<<"9">>, <<"8", "9">>}

\* The manifests handed to new ManifestId(manifest).
IdManifests == [from : Descriptors, version : Versions]

Occurs(s, c) == \E i \in 1..Len(s) : s[i] = c

FirstIndex(s, c) == CHOOSE i \in 1..Len(s) : s[i] = c /\ \A j \in 1..(i - 1) : s[j] # c

\* String.prototype.split(c): the pieces between all the occurrences of c.
RECURSIVE Split(_, _)
Split(s, c) ==
    IF ~Occurs(s, c) THEN <<s>>
    ELSE <<SubSeq(s, 1, FirstIndex(s, c) - 1)>>
         \o Split(SubSeq(s, FirstIndex(s, c) + 1, Len(s)), c)

startsWith(s, c) == Len(s) > 0 /\ s[1] = c

NoId == [state |-> "none", scope |-> Absent, name |-> Absent,
         version |-> Absent, fullName |-> Absent]

\* arr2[0], and arr2[1] || manifest.version.
NameAndVersion(arr2, o, m) ==
    [o EXCEPT !.state = "built",
              !.name = arr2[1],
              !.version = IF Len(arr2) >= 2 /\ arr2[2] # <<>> THEN arr2[2]
                          ELSE m.version]

\* constructor (manifest), lines 297-310.  arr[1] is undefined when a scoped
\* id has no '/', and the call of split on it throws a TypeError.
constructor(m) ==
    LET id == m.from
    IN  IF startsWith(id, "@")
        THEN LET arr == Split(id, "/")
             IN  IF Len(arr) < 2
                 THEN [NoId EXCEPT !.state = "TypeError", !.scope = arr[1]]
                 ELSE NameAndVersion(Split(arr[2], "@"),
                                     [NoId EXCEPT !.scope = arr[1]], m)
        ELSE NameAndVersion(Split(id, "@"), NoId, m)

\* A variant that leaves the scope out.
getFullNameUnscoped(o) == o.name \o <<"@">> \o o.version

\* getFullName (), lines 337-343.
getFullName(o) ==
    IF o.scope # Absent
    THEN o.scope \o <<"/">> \o o.name \o <<"@">> \o o.version
    ELSE o.name \o <<"@">> \o o.version

-----------------------------------------------------------------------------
(* The state.                                                              *)

VARIABLES
    manifest,   \* manifest[p]: the package.json of the package p works on
    cache,      \* the index of the cache store: key -> entry
    dest,       \* the content folders: path -> folder
    pc,         \* pc[p]: the await at which invocation p stands
    cacheInfo,  \* the local variable cacheInfo of downloadBinaries
    promise,    \* the promise cacheArchive returned
    stream,     \* the request piped into cacache.put.stream
    outcome,    \* how the invocation ended: result and error message
    obs,        \* what the invocation has done so far
    before,     \* the summary of the invocation that ended before p began
    prev,       \* the summary of the invocation that ended last
    idManifest, \* the manifest handed to new ManifestId
    mid         \* the ManifestId object

idVars == <<idManifest, mid>>

vars ==
    <<manifest, cache, dest, pc, cacheInfo, promise, stream, outcome, obs,
      before, prev, idManifest, mid>>

\* No ManifestId is being built.
NoIdManifest == [from |-> <<>>, version |-> <<"9">>]

NoPromise == [state |-> "none", value |-> Absent]
NoStream == [phase |-> "none", closed |-> FALSE, url |-> Absent,
             key |-> Absent, integrity |-> Absent]
NoOutcome == [result |-> "none", message |-> Absent]
NoSummary == [valid |-> FALSE, result |-> "none", count |-> 0,
              content |-> NoFolder, gets |-> 0, hit |-> FALSE,
              manifest |-> Bare, ipath |-> Absent]

NoObs(c, d) ==
    [gets |-> 0, puts |-> 0, lookups |-> 0, removed |-> 0, extracted |-> 0,
     warned |-> 0, count |-> 0, fault |-> FALSE,
     writeFailed |-> FALSE, transportFailed |-> FALSE, settledBy |-> "none",
     strip |-> [nan |-> FALSE, val |-> 0], first |-> "none",
     answer |-> NoEntry, ipath |-> Absent, cache0 |-> c, dest0 |-> d]

Running(p) == pc[p] \notin {"idle", "done"}

Init ==
    /\ \E m \in Manifests : manifest = [p \in Procs |-> m]
    /\ \E e \in CacheEntries : cache = [k \in CacheKeys |-> e]
    /\ \E f \in {NoFolder, StaleFolder} : dest = [d \in ContentFolders |-> f]
    /\ pc = [p \in Procs |-> "idle"]
    /\ cacheInfo = [p \in Procs |-> NoEntry]
    /\ promise = [p \in Procs |-> NoPromise]
    /\ stream = [p \in Procs |-> NoStream]
    /\ outcome = [p \in Procs |-> NoOutcome]
    /\ obs = [p \in Procs |-> NoObs(cache, dest)]
    /\ before = [p \in Procs |-> NoSummary]
    /\ prev = NoSummary
    /\ idManifest = NoIdManifest
    /\ mid = NoId

\* The invocation of p ends: by a return, a throw, or the death of the
\* process.  What it still had in flight is abandoned with it.
Finish(p, res, msg, newObs, newDest) ==
    /\ pc' = [pc EXCEPT ![p] = "done"]
    /\ outcome' = [outcome EXCEPT ![p] = [result |-> res, message |-> msg]]
    /\ obs' = [obs EXCEPT ![p] = newObs]
    /\ dest' = newDest
    /\ stream' = [stream EXCEPT ![p] = NoStream]
    /\ cacheInfo' = [cacheInfo EXCEPT ![p] = NoEntry]
    /\ promise' = [promise EXCEPT ![p] = NoPromise]
    /\ prev' = [valid |-> TRUE, result |-> res, count |-> newObs.count,
                content |-> newDest[contentFolderPath(manifest[p])],
                gets |-> newObs.gets,
                hit |-> newObs.cache0[cacheKey(manifest[p])] # NoEntry,
                manifest |-> manifest[p],
                ipath |-> newObs.ipath]

\* downloadBinaries(packagePath, cachePath) is called; no other invocation
\* is running, and the records of the ended ones are dropped.
Start(p) ==
    /\ \A q \in Procs : ~Running(q)
    /\ pc' = [q \in Procs |-> IF q = p THEN "isFolderPackage" ELSE "idle"]
    /\ outcome' = [q \in Procs |-> NoOutcome]
    /\ obs' = [q \in Procs |-> NoObs(cache, dest)]
    /\ before' = [q \in Procs |-> IF q = p THEN prev ELSE NoSummary]
    /\ UNCHANGED <<manifest, cache, dest, cacheInfo, promise, stream, prev>>
    /\ UNCHANGED idVars

\* Lines 109-182: from the answer of isFolderPackage to the call of
\* cacache.get.info.
CheckManifest(p) ==
    /\ pc[p] = "isFolderPackage"
    /\ LET m == manifest[p]
           r == Resolve(m)
       IN  CASE r = "noop" ->
                  /\ Finish(p, "noop", Absent, obs[p], dest)
                  /\ UNCHANGED <<manifest, cache, before>>
             [] r = "MissingBaseUrl" ->
                  /\ Finish(p, "ConfigurationError", MissingBaseUrlMessage,
                            obs[p], dest)
                  /\ UNCHANGED <<manifest, cache, before>>
             [] r = "warned" ->
                  /\ Finish(p, "warned", Absent,
                            [obs[p] EXCEPT !.warned = @ + 1], dest)
                  /\ UNCHANGED <<manifest, cache, before>>
             [] r = "MissingFileName" ->
                  /\ Finish(p, "ConfigurationError", MissingFileNameMessage,
                            obs[p], dest)
                  /\ UNCHANGED <<manifest, cache, before>>
             [] OTHER ->
                  /\ pc' = [pc EXCEPT ![p] = "getInfo1"]
                  /\ obs' = [obs EXCEPT ![p].lookups = @ + 1]
                  /\ UNCHANGED <<manifest, cache, dest, cacheInfo, promise,
                                 stream, outcome, before, prev>>
    /\ UNCHANGED idVars

\* A variant that always downloads, as the disabled cacache.rm.entry of
\* line 181 would make it.
NotCachedForced(info) == TRUE

\* if (!cacheInfo), line 183: the cache has no idea of the desired file.
NotCached(info) == info = NoEntry

\* A variant that trusts the download and does not look at the second answer.
StillNotCachedIgnored(info) == FALSE

\* if (!cacheInfo), line 207: nor has it after the download.
StillNotCached(info) == info = NoEntry

\* The promise settles once: resolve and reject are ignored afterwards.
Settle(pr, how, value) ==
    IF pr.state = "pending" THEN [state |-> how, value |-> value] ELSE pr

SettledBy(pr, o, event) ==
    IF pr.state = "pending" THEN [o EXCEPT !.settledBy = event] ELSE o

\* .on('integrity', (value) => resolve(value)), lines 244-247.
OnIntegrity(pr, value) == Settle(pr, "resolved", value)

\* .on('close', () => resolve()), lines 253-256.
OnClose(pr) == Settle(pr, "resolved", Absent)

\* .on('error', (err) => reject(err)), lines 248-251 and 257-260; pipe()
\* returns its destination, so both listen to the cache-write stream.
OnError(pr) == Settle(pr, "rejected", Absent)

\* What the first lookup answered, for the record of the invocation.
FirstAnswer(info) == IF info = NoEntry THEN "miss" ELSE "hit"

\* A variant that removes the content folder before it downloads.
GetInfo1ClearsFirst(p) ==
    /\ pc[p] = "getInfo1"
    /\ LET m == manifest[p]
           info == cache[cacheKey(m)]
       IN  IF NotCached(info)
           THEN /\ pc' = [pc EXCEPT ![p] = "cacheArchive"]
                /\ stream' = [stream EXCEPT ![p] =
                        [phase |-> "streaming", closed |-> FALSE,
                         url |-> fileUrl(m), key |-> cacheKey(m),
                         integrity |-> integrityDigest(m)]]
                /\ promise' = [promise EXCEPT ![p] =
                        [state |-> "pending", value |-> Absent]]
                /\ obs' = [obs EXCEPT ![p].gets = @ + 1, ![p].puts = @ + 1,
                                      ![p].removed = @ + 1,
                                      ![p].first = FirstAnswer(info)]
                /\ dest' = [dest EXCEPT ![contentFolderPath(m)] = Removed(@)]
                /\ UNCHANGED cacheInfo
           ELSE /\ pc' = [pc EXCEPT ![p] = "rimraf"]
                /\ cacheInfo' = [cacheInfo EXCEPT ![p] = info]
                /\ obs' = [obs EXCEPT ![p].strip = skipLevels(m),
                                      ![p].first = FirstAnswer(info),
                                      ![p].answer = info]
                /\ UNCHANGED <<stream, promise, dest>>
    /\ UNCHANGED <<manifest, cache, outcome, before, prev>>
    /\ UNCHANGED idVars

\* Lines 182-195: cacache.get.info has answered.  A hit goes on to line
\* 223; a miss calls cacheArchive, whose executor issues the GET and opens
\* the cache-write stream before the await.
GetInfo1(p) ==
    /\ pc[p] = "getInfo1"
    /\ LET m == manifest[p]
           info == cache[cacheKey(m)]
       IN  IF NotCached(info)
           THEN /\ pc' = [pc EXCEPT ![p] = "cacheArchive"]
                /\ stream' = [stream EXCEPT ![p] =
                        [phase |-> "streaming", closed |-> FALSE,
                         url |-> fileUrl(m), key |-> cacheKey(m),
                         integrity |-> integrityDigest(m)]]
                /\ promise' = [promise EXCEPT ![p] =
                        [state |-> "pending", value |-> Absent]]
                /\ obs' = [obs EXCEPT ![p].gets = @ + 1, ![p].puts = @ + 1,
                                      ![p].first = FirstAnswer(info)]
                /\ UNCHANGED cacheInfo
           ELSE /\ pc' = [pc EXCEPT ![p] = "rimraf"]
                /\ cacheInfo' = [cacheInfo EXCEPT ![p] = info]
                /\ obs' = [obs EXCEPT ![p].strip = skipLevels(m),
                                      ![p].first = FirstAnswer(info),
                                      ![p].answer = info]
                /\ UNCHANGED <<stream, promise>>
    /\ UNCHANGED <<manifest, cache, dest, outcome, before, prev>>
    /\ UNCHANGED idVars

\* cacache.get.info rejects (an unreadable index): nothing catches it.
GetInfoFails(p) ==
    /\ pc[p] \in {"getInfo1", "getInfo2"}
    /\ Finish(p, "RawError", Absent, [obs[p] EXCEPT !.fault = TRUE], dest)
    /\ UNCHANGED <<manifest, cache, before>>
    /\ UNCHANGED idVars

\* The cache-write stream has all the bytes, they match opts.integrity, the
\* index entry is inserted and 'integrity' is emitted.
PutIntegrity(p) ==
    /\ stream[p].phase = "streaming"
    /\ LET blob == Remote(stream[p].url)
       IN  /\ IntegrityMatches(stream[p].integrity, blob)
           /\ cache' = [cache EXCEPT ![stream[p].key] = EntryOf(blob)]
           /\ promise' = [promise EXCEPT ![p] =
                   OnIntegrity(@, ComputedIntegrity("sha512", blob))]
           /\ obs' = [obs EXCEPT ![p] = SettledBy(promise[p], @, "integrity")]
    /\ stream' = [stream EXCEPT ![p].phase = "committed"]
    /\ UNCHANGED <<manifest, dest, pc, cacheInfo, outcome, before, prev>>
    /\ UNCHANGED idVars

\* The cache-write stream fails: the bytes do not match opts.integrity, or
\* the store cannot write.  Nothing is committed and 'error' is emitted.
PutError(p) ==
    /\ stream[p].phase = "streaming"
    /\ stream' = [stream EXCEPT ![p].phase = "errored"]
    /\ promise' = [promise EXCEPT ![p] = OnError(@)]
    /\ obs' = [obs EXCEPT ![p] =
            [SettledBy(promise[p], @, "error") EXCEPT !.writeFailed = TRUE]]
    /\ UNCHANGED <<manifest, cache, dest, pc, cacheInfo, outcome, before, prev>>
    /\ UNCHANGED idVars

\* The cache-write stream emits 'close', at any point of its life.
PutClose(p) ==
    /\ stream[p].phase \in {"streaming", "committed", "errored"}
    /\ ~stream[p].closed
    /\ stream' = [stream EXCEPT ![p].closed = TRUE]
    /\ promise' = [promise EXCEPT ![p] = OnClose(@)]
    /\ obs' = [obs EXCEPT ![p] = SettledBy(promise[p], @, "close")]
    /\ UNCHANGED <<manifest, cache, dest, pc, cacheInfo, outcome, before, prev>>
    /\ UNCHANGED idVars

\* The request emits 'error' (the connection fails).  No listener is on
\* the request: the error is thrown from the event loop, and either ends
\* the process or, under an uncaughtException handler, leaves the
\* cache-write stream open for ever, with no more bytes and no end.
TransportError(p) ==
    /\ stream[p].phase = "streaming"
    /\ \/ /\ Finish(p, "Uncaught", Absent,
                    [obs[p] EXCEPT !.transportFailed = TRUE], dest)
          /\ UNCHANGED <<manifest, cache, before>>
       \/ /\ stream' = [stream EXCEPT ![p].phase = "transportFailed"]
          /\ obs' = [obs EXCEPT ![p].transportFailed = TRUE]
          /\ UNCHANGED <<manifest, cache, dest, pc, cacheInfo, promise,
                         outcome, before, prev>>
    /\ UNCHANGED idVars

\* A variant that looks the key up and downloads again after a failure.
AfterCacheArchiveRetries(p) ==
    /\ pc[p] = "cacheArchive"
    /\ promise[p].state \in {"resolved", "rejected"}
    /\ pc' = [pc EXCEPT ![p] =
            IF promise[p].state = "resolved" THEN "getInfo2" ELSE "getInfo1"]
    /\ obs' = [obs EXCEPT ![p].lookups = @ + 1]
    /\ UNCHANGED <<manifest, cache, dest, cacheInfo, promise, stream,
                   outcome, before, prev>>
    /\ UNCHANGED idVars

\* Lines 194-206: the await of cacheArchive ends.
AfterCacheArchive(p) ==
    /\ pc[p] = "cacheArchive"
    /\ \/ /\ promise[p].state = "resolved"
          /\ pc' = [pc EXCEPT ![p] = "getInfo2"]
          /\ obs' = [obs EXCEPT ![p].lookups = @ + 1]
          /\ UNCHANGED <<manifest, cache, dest, cacheInfo, promise, stream,
                         outcome, before, prev>>
       \/ /\ promise[p].state = "rejected"
          /\ Finish(p, "DownloadFailed", <<"Download failed.">>, obs[p], dest)
          /\ UNCHANGED <<manifest, cache, before>>
    /\ UNCHANGED idVars

\* Lines 206-223: the second cacache.get.info has answered.
GetInfo2(p) ==
    /\ pc[p] = "getInfo2"
    /\ LET info == cache[cacheKey(manifest[p])]
       IN  IF StillNotCached(info)
           THEN /\ Finish(p, "DownloadFailed", <<"Download failed.">>,
                          obs[p], dest)
                /\ UNCHANGED <<manifest, cache, before>>
           ELSE /\ pc' = [pc EXCEPT ![p] = "rimraf"]
                /\ cacheInfo' = [cacheInfo EXCEPT ![p] = info]
                /\ obs' = [obs EXCEPT ![p].strip = skipLevels(manifest[p]),
                                      ![p].answer = info]
                /\ UNCHANGED <<manifest, cache, dest, promise, stream,
                               outcome, before, prev>>
    /\ UNCHANGED idVars

\* A variant that calls decompress without awaiting the removal.
RimrafNotAwaited(p) ==
    /\ pc[p] = "rimraf"
    /\ pc' = [pc EXCEPT ![p] = "decompress"]
    /\ obs' = [obs EXCEPT ![p].ipath = cacheInfo[p].path]
    /\ UNCHANGED <<manifest, cache, dest, cacheInfo, promise, stream,
                   outcome, before, prev>>
    /\ UNCHANGED idVars

\* Lines 223-231: rimraf has removed the content folder; decompress is
\* called on the path of the cache entry.
Rimraf(p) ==
    /\ pc[p] = "rimraf"
    /\ pc' = [pc EXCEPT ![p] = "decompress"]
    /\ dest' = [dest EXCEPT ![contentFolderPath(manifest[p])] = Removed(@)]
    /\ obs' = [obs EXCEPT ![p].removed = @ + 1,
                          ![p].ipath = cacheInfo[p].path]
    /\ UNCHANGED <<manifest, cache, cacheInfo, promise, stream, outcome,
                   before, prev>>
    /\ UNCHANGED idVars

\* rimraf rejects (a busy or protected folder): nothing catches it.
RimrafFails(p) ==
    /\ pc[p] = "rimraf"
    /\ Finish(p, "RawError", Absent, [obs[p] EXCEPT !.fault = TRUE], dest)
    /\ UNCHANGED <<manifest, cache, before>>
    /\ UNCHANGED idVars

\* Lines 231-234: decompress has extracted the archive.
Decompress(p) ==
    /\ pc[p] = "decompress"
    /\ LET d == contentFolderPath(manifest[p])
           blob == ContentAt(obs[p].ipath)
       IN  Finish(p, "ok", Absent,
                  [obs[p] EXCEPT !.extracted = @ + 1,
                                 !.count = FileCount(blob)],
                  [dest EXCEPT ![d] = Extracted(@, blob, obs[p].strip)])
    /\ UNCHANGED <<manifest, cache, before>>
    /\ UNCHANGED idVars

\* decompress rejects having written none or one of the files: nothing catches it
\* and nothing is rolled back.
DecompressFails(p) ==
    /\ pc[p] = "decompress"
    /\ LET d == contentFolderPath(manifest[p])
           blob == ContentAt(obs[p].ipath)
           all == ExtractedFiles(blob, obs[p].strip)
       IN  \E part \in {{}} \cup {{x} : x \in all} :
              Finish(p, "RawError", Absent,
                     [obs[p] EXCEPT !.fault = TRUE],
                     [dest EXCEPT ![d] =
                        [exists |-> dest[d].exists \/ part # {},
                         files |-> dest[d].files \cup part]])
    /\ UNCHANGED <<manifest, cache, before>>
    /\ UNCHANGED idVars

Next ==
    \E p \in Procs :
        \/ Start(p)
        \/ CheckManifest(p)
        \/ GetInfo1(p)
        \/ GetInfoFails(p)
        \/ PutIntegrity(p)
        \/ PutError(p)
        \/ PutClose(p)
        \/ TransportError(p)
        \/ AfterCacheArchive(p)
        \/ GetInfo2(p)
        \/ Rimraf(p)
        \/ RimrafFails(p)
        \/ Decompress(p)
        \/ DecompressFails(p)

Spec == Init /\ [][Next]_vars

\* Successive invocations for releases of the package whose package.json
\* files differ, on a cache that starts empty.
InitReleases ==
    /\ manifest \in [Procs -> ReleaseManifests]
    /\ cache = [k \in CacheKeys |-> NoEntry]
    /\ \E f \in {NoFolder, StaleFolder} : dest = [d \in ContentFolders |-> f]
    /\ pc = [p \in Procs |-> "idle"]
    /\ cacheInfo = [p \in Procs |-> NoEntry]
    /\ promise = [p \in Procs |-> NoPromise]
    /\ stream = [p \in Procs |-> NoStream]
    /\ outcome = [p \in Procs |-> NoOutcome]
    /\ obs = [p \in Procs |-> NoObs(cache, dest)]
    /\ before = [p \in Procs |-> NoSummary]
    /\ prev = NoSummary
    /\ idManifest = NoIdManifest
    /\ mid = NoId

SpecReleases == InitReleases /\ [][Next]_vars

\* A variant that waits until no other invocation is running.
StartExclusive(p) ==
    /\ pc[p] = "idle"
    /\ \A q \in Procs : ~Running(q)
    /\ pc' = [pc EXCEPT ![p] = "isFolderPackage"]
    /\ outcome' = [outcome EXCEPT ![p] = NoOutcome]
    /\ obs' = [obs EXCEPT ![p] = NoObs(cache, dest)]
    /\ before' = [before EXCEPT ![p] = prev]
    /\ UNCHANGED <<manifest, cache, dest, cacheInfo, promise, stream, prev>>
    /\ UNCHANGED idVars

\* downloadBinaries is called while other invocations may be running: it
\* takes no lock and asks for none.  Each process calls it once here.
StartAny(p) ==
    /\ pc[p] = "idle"
    /\ pc' = [pc EXCEPT ![p] = "isFolderPackage"]
    /\ outcome' = [outcome EXCEPT ![p] = NoOutcome]
    /\ obs' = [obs EXCEPT ![p] = NoObs(cache, dest)]
    /\ before' = [before EXCEPT ![p] = prev]
    /\ UNCHANGED <<manifest, cache, dest, cacheInfo, promise, stream, prev>>
    /\ UNCHANGED idVars

\* Concurrent invocations for one package, on a cache that starts empty.
InitConcurrent ==
    /\ manifest = [p \in Procs |-> Complete]
    /\ cache = [k \in CacheKeys |-> NoEntry]
    /\ dest = [d \in ContentFolders |-> StaleFolder]
    /\ pc = [p \in Procs |-> "idle"]
    /\ cacheInfo = [p \in Procs |-> NoEntry]
    /\ promise = [p \in Procs |-> NoPromise]
    /\ stream = [p \in Procs |-> NoStream]
    /\ outcome = [p \in Procs |-> NoOutcome]
    /\ obs = [p \in Procs |-> NoObs(cache, dest)]
    /\ before = [p \in Procs |-> NoSummary]
    /\ prev = NoSummary
    /\ idManifest = NoIdManifest
    /\ mid = NoId

NextConcurrent ==
    \E p \in Procs :
        \/ StartAny(p)
        \/ CheckManifest(p)
        \/ GetInfo1(p)
        \/ GetInfoFails(p)
        \/ PutIntegrity(p)
        \/ PutError(p)
        \/ PutClose(p)
        \/ TransportError(p)
        \/ AfterCacheArchive(p)
        \/ GetInfo2(p)
        \/ Rimraf(p)
        \/ RimrafFails(p)
        \/ Decompress(p)
        \/ DecompressFails(p)

SpecConcurrent == InitConcurrent /\ [][NextConcurrent]_vars

\* A ManifestId is built from a manifest and rendered; no acquisition runs.
InitId ==
    /\ idManifest \in IdManifests
    /\ mid = NoId
    /\ manifest = [p \in Procs |-> Bare]
    /\ cache = [k \in CacheKeys |-> NoEntry]
    /\ dest = [d \in ContentFolders |-> NoFolder]
    /\ pc = [p \in Procs |-> "idle"]
    /\ cacheInfo = [p \in Procs |-> NoEntry]
    /\ promise = [p \in Procs |-> NoPromise]
    /\ stream = [p \in Procs |-> NoStream]
    /\ outcome = [p \in Procs |-> NoOutcome]
    /\ obs = [p \in Procs |-> NoObs(cache, dest)]
    /\ before = [p \in Procs |-> NoSummary]
    /\ prev = NoSummary

\* new ManifestId(manifest)
Construct ==
    /\ mid.state = "none"
    /\ mid' = constructor(idManifest)
    /\ UNCHANGED <<manifest, cache, dest, pc, cacheInfo, promise, stream,
                   outcome, obs, before, prev, idManifest>>

\* manifestId.getFullName()
GetFullName ==
    /\ mid.state = "built"
    /\ mid' = [mid EXCEPT !.state = "rendered", !.fullName = getFullName(mid)]
    /\ UNCHANGED <<manifest, cache, dest, pc, cacheInfo, promise, stream,
                   outcome, obs, before, prev, idManifest>>

NextId == Construct \/ GetFullName

SpecId == InitId /\ [][NextId]_vars

-----------------------------------------------------------------------------
(* The properties.                                                         *)

\* The platform entry for the running '<os>-<arch>' key is selected: the
\* folder is a package (a readable package.json with a name and a version)
\* and declares xpack.binaries.platforms[platformKey].
Selected(m) ==
    /\ m.file = "ok"
    /\ m.name # Absent
    /\ m.version # Absent
    /\ m.hasXpack
    /\ m.hasBinaries
    /\ m.hasPlatforms
    /\ m.hasPlatform

Done(p) == pc[p] = "done"

ContentFolder(p) == dest[contentFolderPath(manifest[p])]

Untouched(p) ==
    /\ obs[p].removed = 0
    /\ obs[p].extracted = 0
    /\ dest = obs[p].dest0

Contains(s, part) ==
    \E i \in 1..(Len(s) - Len(part) + 1) :
        SubSeq(s, i, i + Len(part) - 1) = part

\* The declared digest is not the digest of what the url serves.
Mismatch(m) ==
    /\ integrityDigest(m) # Absent
    /\ ~IntegrityMatches(integrityDigest(m), Remote(fileUrl(m)))

\* C1: when the download's cache write has failed, the content folder is not
\* removed and nothing is extracted into it during the invocation, and the
\* invocation, unless the second cache lookup itself rejects, ends with the
\* error 'Download failed.'.
C1_WriteFailureLeavesDestination ==
    \A p \in Procs :
        obs[p].writeFailed =>
            /\ obs[p].cache0[cacheKey(manifest[p])] = NoEntry
            /\ Untouched(p)
            /\ pc[p] \notin {"rimraf", "decompress"}
            /\ (Done(p) /\ ~obs[p].fault =>
                    /\ outcome[p].result = "DownloadFailed"
                    /\ outcome[p].message = <<"Download failed.">>)

\* An invocation has ended with 'Download failed.' after the store refused
\* bytes that do not match the declared sha256, a stale folder still there.
C1_Witness ==
    \E p \in Procs :
        /\ Done(p)
        /\ obs[p].writeFailed
        /\ manifest[p].platform.sha256 # Absent
        /\ Mismatch(manifest[p])
        /\ outcome[p].result = "DownloadFailed"
        /\ ContentFolder(p) = StaleFolder

\* C2: the promise of cacheArchive is resolved only once the cache-write
\* stream has committed and reported its integrity digest, and with that
\* digest as its value.
C2_ResolvesOnlyWithDigest ==
    \A p \in Procs :
        promise[p].state = "resolved" =>
            /\ stream[p].phase = "committed"
            /\ promise[p].value =
                   ComputedIntegrity("sha512", Remote(stream[p].url))

\* The invocation waits for ever: the transport has failed, the promise is
\* pending and no event will settle it.
Hung(p) ==
    /\ pc[p] = "cacheArchive"
    /\ promise[p].state = "pending"
    /\ stream[p].phase = "transportFailed"

\* C3: after a failure of the transport stream the invocation does not hang,
\* does not go on to remove the content folder, and ends with the error
\* 'Download failed.'.
C3_TransportFailureIsTerminal ==
    \A p \in Procs :
        obs[p].transportFailed =>
            /\ ~Hung(p)
            /\ Untouched(p)
            /\ (Done(p) => outcome[p].result = "DownloadFailed")

\* C4: an invocation whose selected platform entry has skip = true ends as
\* a warning and raises no error, whatever the other fields are.
C4_SkipNeverFails ==
    \A p \in Procs :
        Done(p) /\ Selected(manifest[p]) /\ manifest[p].platform.skip =>
            /\ outcome[p].result = "warned"
            /\ obs[p].warned = 1

\* C5: an invocation whose selected platform entry has skip = true issues
\* no GET, opens no cache write, removes no folder and extracts nothing: the
\* cache and the content folders are as they were when it began.
C5_SkipHasNoSideEffects ==
    \A p \in Procs :
        pc[p] # "idle" /\ Selected(manifest[p]) /\ manifest[p].platform.skip =>
            /\ obs[p].gets = 0
            /\ obs[p].puts = 0
            /\ obs[p].lookups = 0
            /\ stream[p] = NoStream
            /\ Untouched(p)
            /\ cache = obs[p].cache0

\* An invocation for a skipped platform, which declares all that a download
\* needs, has ended with the warning.
C5_Witness ==
    \E p \in Procs :
        /\ Done(p)
        /\ Selected(manifest[p])
        /\ manifest[p].platform.skip
        /\ manifest[p].platform.fileName # Absent
        /\ manifest[p].baseUrl # Absent
        /\ outcome[p].result = "warned"

\* C6: when the folder is no package, or package.json has no xpack, no
\* xpack.binaries, no platforms or no entry for the running platform, the
\* invocation returns without an error, a warning, a cache lookup, a GET, a
\* removal or an extraction.
C6_NothingDeclaredNoEffects ==
    \A p \in Procs :
        pc[p] # "idle" /\ ~Selected(manifest[p]) =>
            /\ pc[p] \in {"isFolderPackage", "done"}
            /\ (Done(p) => outcome[p] = [result |-> "noop", message |-> Absent])
            /\ obs[p].warned = 0
            /\ obs[p].lookups = 0
            /\ obs[p].gets = 0
            /\ obs[p].puts = 0
            /\ Untouched(p)
            /\ cache = obs[p].cache0

\* An invocation on a package.json with a name but no version, which declares
\* a complete binary for the platform, has returned.
C6_Witness ==
    \E p \in Procs :
        /\ Done(p)
        /\ manifest[p].version = Absent
        /\ manifest[p].hasPlatform
        /\ manifest[p].platform.fileName # Absent
        /\ outcome[p].result = "noop"

\* The cache held an entry for the key when the invocation began.
Populated(p) ==
    /\ Selected(manifest[p])
    /\ manifest[p].baseUrl # Absent
    /\ ~manifest[p].platform.skip
    /\ manifest[p].platform.fileName # Absent
    /\ obs[p].cache0[cacheKey(manifest[p])] # NoEntry

\* C7: an invocation that finds the cache populated issues no GET and, when
\* no file-system or cache operation fails, succeeds; two successive such
\* invocations that succeed report the same number of extracted files and
\* leave the same content folder.
C7_PopulatedCacheIdempotent ==
    \A p \in Procs :
        pc[p] # "idle" /\ Populated(p) =>
            /\ obs[p].gets = 0
            /\ obs[p].puts = 0
            /\ cache = obs[p].cache0
            /\ (Done(p) /\ ~obs[p].fault => outcome[p].result = "ok")
            /\ (/\ Done(p)
                /\ outcome[p].result = "ok"
                /\ before[p].valid
                /\ before[p].hit
                /\ before[p].result = "ok"
                => /\ obs[p].count = before[p].count
                   /\ ContentFolder(p) = before[p].content)

\* Two successive invocations on a populated cache have succeeded, the
\* first one having found a stale folder.
C7_Witness ==
    \E p \in Procs :
        /\ Done(p)
        /\ Populated(p)
        /\ outcome[p].result = "ok"
        /\ obs[p].count > 0
        /\ before[p].valid
        /\ before[p].hit
        /\ before[p].result = "ok"
        /\ before[p].content # StaleFolder

\* The second cache lookup of p answers in this step.
SecondLookupAnswers(p) ==
    /\ pc[p] = "getInfo2"
    /\ pc'[p] # "getInfo2"
    /\ ~obs'[p].fault
    /\ ~obs'[p].transportFailed

\* C8: a download that reported success is followed by a second lookup of
\* the key, and when that lookup finds no entry the invocation ends with
\* 'Download failed.', having removed and extracted nothing.
C8_SuccessWithoutEntryFails ==
    /\ [](\A p \in Procs :
            pc[p] = "getInfo2" =>
                promise[p].state = "resolved" /\ obs[p].lookups = 2)
    /\ [][\A p \in Procs :
            /\ pc[p] = "cacheArchive" /\ promise[p].state = "resolved"
               /\ pc'[p] # pc[p] /\ ~obs'[p].transportFailed
               => pc'[p] = "getInfo2"
            /\ SecondLookupAnswers(p) /\ cache[cacheKey(manifest[p])] = NoEntry
               => /\ pc'[p] = "done"
                  /\ outcome'[p].result = "DownloadFailed"
                  /\ obs'[p].removed = 0
                  /\ obs'[p].extracted = 0
                  /\ dest' = obs[p].dest0]_vars

\* A download resolved by 'close' was followed by a second lookup that
\* found nothing, and the invocation has ended with 'Download failed.'.
C8_Witness ==
    \E p \in Procs :
        /\ Done(p)
        /\ obs[p].settledBy = "close"
        /\ obs[p].lookups = 2
        /\ ~obs[p].writeFailed
        /\ cache[cacheKey(manifest[p])] = NoEntry
        /\ outcome[p].result = "DownloadFailed"

\* A base URL is available: the common one or the entry's own.
BaseUrlAvailable(m) == m.baseUrl # Absent \/ m.platform.baseUrl # Absent

\* C9: for a selected platform entry the invocation ends with the error
\* 'Missing xpack.binaries.baseUrl' exactly when neither
\* xpack.binaries.baseUrl nor the entry's baseUrl is there.
C9_BaseUrlErrorIffNoBaseUrl ==
    \A p \in Procs :
        Done(p) /\ Selected(manifest[p]) =>
            (outcome[p].message = MissingBaseUrlMessage
                <=> ~BaseUrlAvailable(manifest[p]))

\* C10: for a selected entry that is not skipped and has a base URL but no
\* fileName, the invocation ends with a Configuration error whose text
\* names the platform key, before any cache lookup, GET, removal or
\* extraction.
C10_MissingFileNameNamesPlatform ==
    \A p \in Procs :
        /\ Done(p)
        /\ Selected(manifest[p])
        /\ ~manifest[p].platform.skip
        /\ BaseUrlAvailable(manifest[p])
        /\ manifest[p].platform.fileName = Absent
        => /\ outcome[p].result = "ConfigurationError"
           /\ Contains(outcome[p].message, platformKey)
           /\ obs[p].lookups = 0
           /\ obs[p].gets = 0
           /\ Untouched(p)

\* The same with xpack.binaries.baseUrl itself present, where the code does
\* raise the error that names the platform key.
MissingFileNameWithCommonBaseUrl ==
    \A p \in Procs :
        /\ Done(p)
        /\ Selected(manifest[p])
        /\ ~manifest[p].platform.skip
        /\ manifest[p].baseUrl # Absent
        /\ manifest[p].platform.fileName = Absent
        => /\ outcome[p].result = "ConfigurationError"
           /\ Contains(outcome[p].message, platformKey)
           /\ obs[p].lookups = 0
           /\ obs[p].gets = 0
           /\ Untouched(p)

\* A GET of p is in flight or has been answered.
Requested(p) == stream[p].phase # "none"

\* C11: the URL of the GET is the effective base URL (the entry's baseUrl
\* when it has one, xpack.binaries.baseUrl otherwise), one '/' when the base
\* does not end in one, and the fileName; the entry's 'https://example.com'
\* beside the common 'https://fallback.com/' gives
\* 'https://example.com/x.tar.gz'.
C11_UrlIsEffectiveBasePlusFileName ==
    \A p \in Procs :
        Requested(p) =>
            LET m == manifest[p]
                u == stream[p].url
                f == m.platform.fileName
                base == IF m.platform.baseUrl # Absent
                        THEN m.platform.baseUrl ELSE m.baseUrl
                joint == Len(u) - Len(f)
            IN  /\ base # Absent
                /\ joint >= 1
                /\ SubSeq(u, joint + 1, Len(u)) = f
                /\ u[joint] = "/"
                /\ IF base[Len(base)] = "/"
                   THEN SubSeq(u, 1, joint) = base
                   ELSE SubSeq(u, 1, joint - 1) = base
                /\ (m.platform.baseUrl = <<"https://example.com">>
                      /\ m.baseUrl = <<"https://fallback.com", "/">>
                      /\ f = <<"x.tar.gz">>
                    => u = <<"https://example.com", "/", "x.tar.gz">>)

\* The GET of the example is in flight.
C11_Witness ==
    \E p \in Procs :
        /\ Requested(p)
        /\ manifest[p].platform.baseUrl = <<"https://example.com">>
        /\ manifest[p].baseUrl = <<"https://fallback.com", "/">>
        /\ stream[p].url = <<"https://example.com", "/", "x.tar.gz">>

\* C12: the integrity option of the cache write is chosen from the entry
\* alone: the sha256 digest under the tag 'sha256' whenever sha256 is
\* declared, the sha512 digest under the tag 'sha512' when only sha512 is,
\* and none when neither is, in which case the download still goes on.
C12_IntegrityFromEntryAlone ==
    \A p \in Procs :
        Requested(p) =>
            LET e == manifest[p].platform
                i == stream[p].integrity
            IN  /\ e.sha256 # Absent =>
                     i = <<"sha256", "-">> \o Base64(HexDecode(e.sha256))
                /\ e.sha256 = Absent /\ e.sha512 # Absent =>
                     i = <<"sha512", "-">> \o Base64(HexDecode(e.sha512))
                /\ e.sha256 = Absent /\ e.sha512 = Absent => i = Absent
                /\ obs[p].gets = 1

\* An entry that declares neither digest has been downloaded, cached and
\* extracted, unverified.
C12_Witness ==
    \E p \in Procs :
        /\ Done(p)
        /\ manifest[p].platform.sha256 = Absent
        /\ manifest[p].platform.sha512 = Absent
        /\ obs[p].gets = 1
        /\ obs[p].settledBy = "integrity"
        /\ outcome[p].result = "ok"
        /\ cache[cacheKey(manifest[p])] # NoEntry

\* C13: the strip depth handed to the extraction is a non-negative integer:
\* the parsed xpack.binaries.skip when that is numeric, 0 when it is absent
\* or cannot be parsed.
C13_StripIsNonNegativeInteger ==
    \A p \in Procs :
        pc[p] = "decompress" =>
            /\ ~obs[p].strip.nan
            /\ obs[p].strip.val >= 0

\* The text of s before the first c, and after it; all of s, and nothing,
\* when s has no c.
BeforeFirst(s, c) ==
    IF Occurs(s, c) THEN SubSeq(s, 1, FirstIndex(s, c) - 1) ELSE s

AfterFirst(s, c) ==
    IF Occurs(s, c) THEN SubSeq(s, FirstIndex(s, c) + 1, Len(s)) ELSE <<>>

\* The parser of the specification: a descriptor that starts with '@' is
\* split on its first '/' into the scope and the rest; the rest, or an
\* unscoped descriptor, is split on its first '@' into the name and the
\* version part, and an empty or missing version part gives the fallback.
ReferenceParse(id, fallbackVersion) ==
    LET scoped == startsWith(id, "@")
        rest == IF scoped THEN AfterFirst(id, "/") ELSE id
        versionPart == AfterFirst(rest, "@")
    IN  [scope |-> IF scoped THEN BeforeFirst(id, "/") ELSE Absent,
         name |-> BeforeFirst(rest, "@"),
         version |-> IF versionPart # <<>> THEN versionPart
                     ELSE fallbackVersion]

Parsed(o) == [scope |-> o.scope, name |-> o.name, version |-> o.version]

\* C14: for every descriptor over the characters '@', '/', 'a' and '1' the
\* constructor of ManifestId gives the scope, name and version the
\* reference parser gives: the splits are on the first '/' and the first
\* '@', and what follows the first separator is kept.
C14_ParsesAsReference ==
    mid.state # "none" =>
        /\ mid.state # "TypeError"
        /\ Parsed(mid) = ReferenceParse(idManifest.from, idManifest.version)

\* The descriptor has at most one '/' and, past its first character, at
\* most one '@'; a scoped one has its '/' and names the version after it.
Count(s, c) == Cardinality({i \in 1..Len(s) : s[i] = c})

SingleSeparators(id) ==
    /\ Count(id, "/") <= 1
    /\ Count(IF id = <<>> THEN id ELSE Tail(id), "@") <= 1
    /\ startsWith(id, "@") =>
          /\ Count(id, "/") = 1
          /\ ~Occurs(BeforeFirst(Tail(id), "/"), "@")

\* On descriptors with single separators the constructor and the reference
\* parser agree.
ParsesAsReferenceOnSingleSeparators ==
    mid.state # "none" /\ SingleSeparators(idManifest.from) =>
        /\ mid.state # "TypeError"
        /\ Parsed(mid) = ReferenceParse(idManifest.from, idManifest.version)

\* A part of a descriptor: not empty, with no separator in it.
Plain(s) == s # <<>> /\ ~Occurs(s, "@") /\ ~Occurs(s, "/")

\* 'name' or '@scope/name'
Unversioned(id) ==
    \/ Plain(id)
    \/ \E i \in 3..(Len(id) - 1) :
          /\ id[1] = "@"
          /\ id[i] = "/"
          /\ Plain(SubSeq(id, 2, i - 1))
          /\ Plain(SubSeq(id, i + 1, Len(id)))

\* 'name@version' or '@scope/name@version'
Versioned(id) ==
    \E j \in 2..(Len(id) - 1) :
        /\ id[j] = "@"
        /\ Unversioned(SubSeq(id, 1, j - 1))
        /\ Plain(SubSeq(id, j + 1, Len(id)))

\* C15: getFullName() of the ManifestId parsed from '@scope/name@version' or
\* 'name@version' is the descriptor itself, and of the one parsed from a
\* descriptor without a version it is the descriptor, '@' and the fallback
\* version.
C15_FullNameRoundTrip ==
    /\ Versioned(idManifest.from) \/ Unversioned(idManifest.from) =>
          mid.state # "TypeError"
    /\ mid.state = "rendered" =>
          /\ Versioned(idManifest.from) => mid.fullName = idManifest.from
          /\ Unversioned(idManifest.from) =>
                mid.fullName =
                    idManifest.from \o <<"@">> \o idManifest.version

\* '@a/1@1' has been parsed and rendered back.
C15_Witness ==
    /\ mid.state = "rendered"
    /\ idManifest.from = <<"@", "a", "/", "1", "@", "1">>
    /\ Versioned(idManifest.from)
    /\ mid.scope = <<"@", "a">>
    /\ mid.name = <<"1">>
    /\ mid.version = <<"1">>
    /\ mid.fullName = idManifest.from

\* C16: within one invocation the content folder is removed only after a
\* lookup of this invocation has returned an entry, the extraction starts
\* only after the removal has completed, each happens at most once and never
\* while the other is in flight, and the archive extracted is the blob path
\* of the entry returned last.
C16_RemoveThenExtractOnce ==
    \A p \in Procs :
        /\ obs[p].removed <= 1
        /\ obs[p].extracted <= 1
        /\ obs[p].removed = 1 =>
              /\ obs[p].lookups >= 1
              /\ obs[p].answer # NoEntry
        /\ pc[p] = "rimraf" =>
              /\ obs[p].answer # NoEntry
              /\ obs[p].removed = 0
              /\ obs[p].extracted = 0
        /\ pc[p] = "decompress" =>
              /\ obs[p].removed = 1
              /\ obs[p].extracted = 0
              /\ obs[p].ipath = obs[p].answer.path
        /\ obs[p].extracted = 1 =>
              /\ obs[p].removed = 1
              /\ obs[p].ipath = obs[p].answer.path

\* After a download the stale folder was removed and the blob the second
\* lookup returned was extracted.
C16_Witness ==
    \E p \in Procs :
        /\ Done(p)
        /\ obs[p].dest0[contentFolderPath(manifest[p])] = StaleFolder
        /\ obs[p].lookups = 2
        /\ obs[p].removed = 1
        /\ obs[p].extracted = 1
        /\ obs[p].answer # NoEntry
        /\ obs[p].ipath = obs[p].answer.path
        /\ <<"old">> \notin ContentFolder(p).files

\* C17: an invocation issues at most one GET and at most two cache lookups,
\* downloads only when its first lookup found no entry, and ends with
\* 'Download failed.' only when it has attempted a download.
C17_NoRetry ==
    \A p \in Procs :
        /\ obs[p].gets <= 1
        /\ obs[p].puts <= 1
        /\ obs[p].lookups <= 2
        /\ obs[p].gets = 1 => obs[p].first = "miss"
        /\ obs[p].lookups = 2 => obs[p].gets = 1
        /\ outcome[p].result = "DownloadFailed" => obs[p].gets = 1

\* A download that failed has ended the invocation with 'Download failed.'
\* after one GET and one lookup.
C17_Witness ==
    \E p \in Procs :
        /\ Done(p)
        /\ outcome[p].result = "DownloadFailed"
        /\ obs[p].writeFailed
        /\ obs[p].gets = 1
        /\ obs[p].lookups = 1
        /\ obs[p].first = "miss"

\* C20: every error that ends an invocation is a Configuration error or
\* 'Download failed.'; a failure of a cache lookup, of the removal of the
\* content folder or of the extraction is caught and raised again as one of
\* the two.
C20_ErrorsAreClassified ==
    \A p \in Procs :
        Done(p) /\ outcome[p].result \notin {"noop", "warned", "ok"} =>
            outcome[p].result \in {"ConfigurationError", "DownloadFailed"}

\* The invocation before p's ended with the archive of p's fileName
\* extracted, so that the cache holds an entry for that name.
CachedByPrevious(p) ==
    /\ pc[p] # "idle"
    /\ before[p].valid
    /\ before[p].result = "ok"
    /\ before[p].manifest.platform.fileName = manifest[p].platform.fileName

\* C18: the cache key depends on the fileName alone: once an invocation has
\* cached and extracted an archive, an invocation for a manifest with the
\* same fileName, whatever its base URL and digests, finds that entry,
\* issues no GET, opens no cache write (so verifies nothing against its
\* own digest) and extracts the blob the first one extracted.
C18_KeyIsFileNameOnly ==
    \A p \in Procs :
        CachedByPrevious(p) =>
            /\ obs[p].gets = 0
            /\ obs[p].puts = 0
            /\ obs[p].first \in {"none", "hit"}
            /\ obs[p].ipath \in {Absent, before[p].ipath}
            /\ Done(p) =>
                  /\ outcome[p].result \in {"ok", "RawError"}
                  /\ outcome[p].result = "ok" =>
                        /\ obs[p].ipath = before[p].ipath
                        /\ obs[p].count = before[p].count

\* A manifest that names another URL and declares the sha256 of that
\* URL's archive has ended with the blob of the first manifest extracted.
C18_Witness ==
    \E p \in Procs :
        /\ CachedByPrevious(p)
        /\ Done(p)
        /\ outcome[p].result = "ok"
        /\ before[p].gets = 1
        /\ before[p].manifest.platform.baseUrl = Absent
        /\ manifest[p].platform.baseUrl = <<"https://example.com">>
        /\ before[p].manifest.platform.sha256 # manifest[p].platform.sha256
        /\ manifest[p].platform.sha256 = DigestHex("sha256", "B")
        /\ obs[p].gets = 0
        /\ obs[p].ipath = <<"content-v2", "A">>
        /\ ContentFolder(p).files = Archive("A")

\* C19: no invocation waits for another: a call can begin while others
\* run, an invocation whose first lookup found the key absent downloads and
\* opens a cache write for it whatever the others have in flight, and an
\* invocation that is to remove the content folder can do so while others
\* are extracting into it.
C19_NoMutualExclusion ==
    \A p \in Procs :
        /\ pc[p] = "idle" => ENABLED StartAny(p)
        /\ pc[p] = "getInfo1" => ENABLED GetInfo1(p)
        /\ pc[p] = "rimraf" => ENABLED Rimraf(p)
        /\ obs[p].first = "miss" =>
              /\ obs[p].gets = 1
              /\ obs[p].puts = 1
              /\ Requested(p) => stream[p].key = cacheKey(manifest[p])

\* Two invocations have both found the key absent and both downloaded and
\* written the same key; now one is extracting into the content folder
\* while the other is removing it.
C19_Witness ==
    \E p, q \in Procs :
        /\ p # q
        /\ manifest[p] = manifest[q]
        /\ obs[p].first = "miss" /\ obs[q].first = "miss"
        /\ obs[p].gets = 1 /\ obs[q].gets = 1
        /\ obs[p].puts = 1 /\ obs[q].puts = 1
        /\ stream[p].key = stream[q].key
        /\ stream[p].phase = "committed" /\ stream[q].phase = "committed"
        /\ pc[p] = "decompress"
        /\ pc[q] = "rimraf"
        /\ contentFolderPath(manifest[p]) = contentFolderPath(manifest[q])

====
